---- MODULE Spec2Model ----
(***************************************************************************)
(* Model of make_chips.py: the tile pair resolver, the shift estimator,    *)
(* the label feature parser, the chip extractor and process_split / main.  *)
(***************************************************************************)
EXTENDS Integers, Sequences, FiniteSets, TLC

VARIABLES
    \* chip extractor (process_split lines 149-158)
    xpc, ras, cen, win, chip,
    \* label feature parser (load_wkt_features)
    ppc, rec, feats, fi, out,
    \* tile pair resolver (process_split lines 126-133)
    dpc, imgdir, platform, found,
    \* process_split and main
    pc, split, todo, run, quotaPairs, quotaChips,
    pairSeq, pairIdx, shifts, manifest, tile, featIdx, unlabelled, estFailed, fault, disk

chipVars == <<xpc, ras, cen, win, chip>>
parseVars == <<ppc, rec, feats, fi, out>>
pairVars == <<dpc, imgdir, platform, found>>
runVars == <<pc, split, todo, run, quotaPairs, quotaChips,
            pairSeq, pairIdx, shifts, manifest, tile, featIdx, unlabelled, estFailed, fault, disk>>
vars == <<chipVars, parseVars, pairVars, runVars>>

------------------------------------------------------------------------------
\* CONFIG (make_chips.py lines 33-35)
CROP_SIZE == 128

Min(a, b) == IF a < b THEN a ELSE b
Max(a, b) == IF a > b THEN a ELSE b

------------------------------------------------------------------------------
\* Chip extractor

\* How far outside the raster a projected centroid may fall.
MaxOver == 70
\* Largest band count of a post raster.
MaxBands == 4

\* Raster widths and heights: below, at and above CROP_SIZE.
Dims == {100, 128, 129, 320, 512}

\* Pixel positions along an axis of length d: outside, on the edges, within
\* half a chip of either edge, and in the interior.
Positions(d) ==
    LET half == CROP_SIZE \div 2
    IN  {0 - MaxOver, -1, 0, 10, half - 1, half, half + 1, 2 * CROP_SIZE,
         d - half - 1, d - half, d - half + 1, d - 1, d, d + MaxOver}

\* safe_window_centered with the upper clamp dropped (window may leave the raster).
safe_window_centered_noclamp(col, row, size, w, h) ==
    LET half == size \div 2
    IN  [col_off |-> Max(0, col - half), row_off |-> Max(0, row - half),
         width |-> size, height |-> size]

\* safe_window_centered(col,row,size,w,h); col and row are the integers that
\* ds.index returns, so int(round(.)) is the identity on them.
safe_window_centered(col, row, size, w, h) ==
    LET half == size \div 2
        c0 == col - half
        r0 == row - half
    IN  [col_off |-> Max(0, Min(c0, w - size)),
         row_off |-> Max(0, Min(r0, h - size)),
         width |-> size, height |-> size]

\* ds.index(x, y): rasterio returns the pair in (row, col) order; modelled
\* for the one centroid point, as a pair of integers.
ds_index(c) == <<c.row, c.col>>

\* cx,cy=ds.index(...); win=safe_window_centered(cx,cy,CROP_SIZE,w,h)
ChipWindow(c, r) ==
    LET idx == ds_index(c)
        cx == idx[1]
        cy == idx[2]
    IN  safe_window_centered(cx, cy, CROP_SIZE, r.w, r.h)

\* ds.read(window=win, boundless=True): always a 3-D array (bands, rows, cols)
\* of the window's shape.
ds_read(r, wn) == <<r.bands, wn.height, wn.width>>

\* np.moveaxis(chip,0,2) on a 3-D array.
moveaxis_0_2(shape) == Append(Tail(shape), Head(shape))

\* chip=np.moveaxis(chip,0,2); if chip.ndim==2: chip=np.stack([chip]*3,axis=2)
ChipShape(r, wn) ==
    LET moved == moveaxis_0_2(ds_read(r, wn))
    IN  IF Len(moved) = 2 THEN <<moved[1], moved[2], 3>> ELSE moved

NoWin == [col_off |-> 0, row_off |-> 0, width |-> 0, height |-> 0]

ParseIdle ==
    /\ ppc = "idle"
    /\ rec = "none"
    /\ feats = <<>>
    /\ fi = 0
    /\ out = <<>>

PairsIdle ==
    /\ dpc = "idle"
    /\ imgdir = {}
    /\ platform = "linux"
    /\ found = <<>>

RunIdle ==
    /\ pc = "idle"
    /\ split = ""
    /\ todo = <<>>
    /\ run = 0
    /\ quotaPairs = 0
    /\ quotaChips = 0
    /\ pairSeq = <<>>
    /\ pairIdx = 0
    /\ shifts = <<>>
    /\ manifest = <<>>
    /\ tile = <<>>
    /\ featIdx = 0
    /\ unlabelled = {}
    /\ estFailed = {}
    /\ fault = "none"
    /\ disk = <<>>

InitChip ==
    /\ RunIdle
    /\ ParseIdle
    /\ PairsIdle
    /\ xpc = "open"
    /\ ras \in [w : Dims, h : Dims, bands : 1..MaxBands]
    /\ \E r \in Positions(ras.h), c \in Positions(ras.w) : cen = [row |-> r, col |-> c]
    /\ win = NoWin
    /\ chip = <<>>

\* One iteration of the feature loop up to save_png (lines 152-158).
ReadChip ==
    /\ xpc = "open"
    /\ win' = ChipWindow(cen, ras)
    /\ chip' = ChipShape(ras, win')
    /\ xpc' = "saved"
    /\ UNCHANGED <<ras, cen, parseVars, pairVars, runVars>>

NextChip == ReadChip

SpecChip == InitChip /\ [][NextChip]_vars

------------------------------------------------------------------------------
\* Text: a string is the sequence of its characters.

LowerLetters == <<"a", "b", "c", "d", "e", "f", "g", "h", "i", "j", "k", "l", "m", "n", "o", "p", "q", "r", "s", "t", "u", "v", "w", "x", "y", "z">>
UpperLetters == <<"A", "B", "C", "D", "E", "F", "G", "H", "I", "J", "K", "L", "M", "N", "O", "P", "Q", "R", "S", "T", "U", "V", "W", "X", "Y", "Z">>

\* str.lower() on one character.
lower_char(c) ==
    IF \E n \in 1..Len(UpperLetters) : UpperLetters[n] = c
    THEN LowerLetters[CHOOSE n \in 1..Len(UpperLetters) : UpperLetters[n] = c]
    ELSE c

upper_char(c) ==
    IF \E n \in 1..Len(LowerLetters) : LowerLetters[n] = c
    THEN UpperLetters[CHOOSE n \in 1..Len(LowerLetters) : LowerLetters[n] = c]
    ELSE c

\* A lookup that leaves the text as written (no case folding).
str_lower_asis(s) == s

\* str.lower()
str_lower(s) == [n \in 1..Len(s) |-> lower_char(s[n])]

str_upper(s) == [n \in 1..Len(s) |-> upper_char(s[n])]
str_capitalize(s) == [n \in 1..Len(s) |-> IF n = 1 THEN upper_char(s[n]) ELSE s[n]]

\* DAMAP (lines 39-44): the keys with their classes.
DAMAP ==
    { <<<<"n", "o", "-", "d", "a", "m", "a", "g", "e">>, 0>>,
      <<<<"n", "o", "n", "e">>, 0>>,
      <<<<"u", "n", "d", "a", "m", "a", "g", "e", "d">>, 0>>,
      <<<<"m", "i", "n", "o", "r", "-", "d", "a", "m", "a", "g", "e">>, 1>>,
      <<<<"m", "i", "n", "o", "r", "_", "d", "a", "m", "a", "g", "e">>, 1>>,
      <<<<"m", "i", "n", "o", "r">>, 1>>,
      <<<<"m", "a", "j", "o", "r", "-", "d", "a", "m", "a", "g", "e">>, 2>>,
      <<<<"m", "a", "j", "o", "r", "_", "d", "a", "m", "a", "g", "e">>, 2>>,
      <<<<"m", "a", "j", "o", "r">>, 2>>,
      <<<<"d", "e", "s", "t", "r", "o", "y", "e", "d">>, 3>>,
      <<<<"t", "o", "t", "a", "l", "-", "d", "e", "s", "t", "r", "u", "c", "t", "i", "o", "n">>, 3>> }

DAMAP_keys == {e[1] : e \in DAMAP}

\* dict.get(key, default) on DAMAP.
dict_get(key, default) ==
    IF key \in DAMAP_keys
    THEN (CHOOSE e \in DAMAP : e[1] = key)[2]
    ELSE default

T_unknown == <<"u", "n", "k", "n", "o", "w", "n">>
T_None == <<"N", "o", "n", "e">>

------------------------------------------------------------------------------
\* Label feature parser: load_wkt_features (lines 84-115)

\* Longest feature list of a label record.
MaxFeats == 2
\* Longest lng_lat / xy sub-list of a nested "features" object.
MaxSub == 1

SeqsUpTo(S, n) == UNION {[1..k -> S] : k \in 0..n}

\* Subtype texts: every key of the table as written, in upper case and
\* capitalised, and texts that are not keys.
OtherTexts ==
    { T_unknown, <<>>, <<"u", "n", "-", "c", "l", "a", "s", "s", "i", "f", "i", "e", "d">>, <<"d", "e", "s", "t", "r", "o", "y", "e", "d", " ">>, <<"M", "I", "N", "O", "R", " ", "D", "A", "M", "A", "G", "E">> }
SubtypeTexts ==
    DAMAP_keys \cup {str_upper(k) : k \in DAMAP_keys}
               \cup {str_capitalize(k) : k \in DAMAP_keys} \cup OtherTexts

\* The JSON value of "subtype": absent, null, a number or a string.
NoSubtype == [kind |-> "absent", text |-> <<>>]
Subtypes ==
    { NoSubtype, [kind |-> "null", text |-> <<>>], [kind |-> "num", text |-> <<"3">>] }
    \cup {[kind |-> "str", text |-> s] : s \in SubtypeTexts}

\* The JSON value of "properties".
NoProps == [kind |-> "absent", ftype |-> "absent", subtype |-> NoSubtype]
PropsOf(k, ft, st) == [kind |-> k, ftype |-> ft, subtype |-> st]

\* One element of a feature list: a JSON value; for an object, its
\* "properties" and the state of its "wkt".
ElemOf(k, p, g) == [kind |-> k, props |-> p, wkt |-> g]
ScalarElems == {ElemOf(k, NoProps, "absent") : k \in {"null", "num", "str", "list"}}
MalformedElems ==
    {ElemOf("obj", PropsOf(k, "absent", NoSubtype), "valid") :
        k \in {"absent", "null", "num", "str", "list"}}
    \cup {ElemOf("obj", PropsOf("obj", ft, NoSubtype), "valid") :
        ft \in {"absent", "road", "Building"}}
    \cup {ElemOf("obj", PropsOf("obj", "building", [kind |-> "str", text |-> T_unknown]), g) :
        g \in {"absent", "null", "garbage", "invalid"}}
BuildingElems ==
    {ElemOf("obj", PropsOf("obj", "building", st), "valid") : st \in Subtypes}
Elems == ScalarElems \cup MalformedElems \cup BuildingElems

\* Elements of the longer lists: a scalar, an object whose "properties"
\* is null, a building without geometry, and buildings with one.
CoreElems ==
    { ElemOf("num", NoProps, "absent"),
      ElemOf("obj", PropsOf("null", "absent", NoSubtype), "valid"),
      ElemOf("obj", PropsOf("obj", "building", [kind |-> "str", text |-> T_unknown]), "absent"),
      ElemOf("obj", PropsOf("obj", "building", NoSubtype), "valid"),
      ElemOf("obj", PropsOf("obj", "building", [kind |-> "str", text |-> <<"M", "i", "n", "o", "r">>]), "valid") }

\* Feature lists: every element alone, and the lists of core elements.
FeatLists == {<<e>> : e \in Elems} \cup SeqsUpTo(CoreElems, MaxFeats)

\* The JSON value of "lng_lat" / "xy": for a string or an object, items holds
\* what iterating it yields (its characters, its keys), all strings.
StrElem == ElemOf("str", NoProps, "absent")
ValOf(k, xs) == [kind |-> k, items |-> xs]
SubValues ==
    {ValOf(k, <<>>) : k \in {"absent", "null", "num"}}
    \cup {ValOf(k, xs) : k \in {"str", "obj"}, xs \in SeqsUpTo({StrElem}, MaxSub)}
    \cup {ValOf("list", xs) : xs \in SeqsUpTo(CoreElems, MaxSub)}

\* The JSON value of "features".
FeaturesOf(k, xs, ll, xy) == [kind |-> k, items |-> xs, lng_lat |-> ll, xy |-> xy]
NoSubValue == ValOf("absent", <<>>)
NoFeatures == FeaturesOf("absent", <<>>, NoSubValue, NoSubValue)
FeaturesValues ==
    {FeaturesOf(k, <<>>, NoSubValue, NoSubValue) : k \in {"absent", "null", "num", "str"}}
    \cup {FeaturesOf("list", xs, NoSubValue, NoSubValue) : xs \in FeatLists}
    \cup {FeaturesOf("obj", <<>>, ll, xy) : ll \in SubValues, xy \in SubValues}

\* The content of a label file.
RecordOf(k, xs, f) == [kind |-> k, items |-> xs, features |-> f]
LabelRecords ==
    {RecordOf(k, <<>>, NoFeatures) : k \in {"unparsable", "null", "num", "str"}}
    \cup {RecordOf("list", xs, NoFeatures) : xs \in FeatLists}
    \cup {RecordOf("obj", <<>>, f) : f \in FeaturesValues}

\* feats += v raises TypeError unless v is iterable.
Iterable(v) == v.kind \in {"absent", "list", "str", "obj"}

\* str(props.get("subtype","unknown"))
py_str(st) ==
    CASE st.kind = "absent" -> T_unknown
      [] st.kind = "null" -> T_None
      [] OTHER -> st.text

\* Lines 86-100 on record r: the list to iterate, or a raise.
LoadFeats(r) ==
    IF r.kind = "obj" /\ r.features.kind # "absent"
    THEN LET f == r.features
         IN  CASE f.kind = "obj" ->
                    IF Iterable(f.lng_lat) /\ Iterable(f.xy)
                    THEN [raised |-> FALSE, feats |-> f.lng_lat.items \o f.xy.items]
                    ELSE [raised |-> TRUE, feats |-> <<>>]
               [] f.kind = "list" -> [raised |-> FALSE, feats |-> f.items]
               [] OTHER -> [raised |-> FALSE, feats |-> <<>>]
    ELSE IF r.kind = "list"
    THEN [raised |-> FALSE, feats |-> r.items]
    ELSE [raised |-> FALSE, feats |-> <<>>]

\* Lines 103-114 on element ft: "skip", "raise", or the feature appended.
ParseOne(ft) ==
    IF ft.kind # "obj" THEN [res |-> "skip", label_int |-> 0, label_text |-> <<>>]
    ELSE IF ft.props.kind \notin {"absent", "obj"}
    THEN [res |-> "raise", label_int |-> 0, label_text |-> <<>>]
    ELSE IF ft.props.kind = "absent" \/ ft.props.ftype # "building"
    THEN [res |-> "skip", label_int |-> 0, label_text |-> <<>>]
    ELSE LET dmg_text == str_lower(py_str(ft.props.subtype))
             dmg_int == dict_get(dmg_text, 0)
         IN  IF ft.wkt = "valid"
             THEN [res |-> "append", label_int |-> dmg_int, label_text |-> dmg_text]
             ELSE [res |-> "skip", label_int |-> dmg_int, label_text |-> dmg_text]

ChipIdle ==
    /\ xpc = "idle"
    /\ ras = [w |-> 0, h |-> 0, bands |-> 0]
    /\ cen = [row |-> 0, col |-> 0]
    /\ win = NoWin
    /\ chip = <<>>

InitParse ==
    /\ RunIdle
    /\ ChipIdle
    /\ PairsIdle
    /\ ppc = "load"
    /\ rec \in LabelRecords
    /\ feats = <<>>
    /\ fi = 0
    /\ out = <<>>

\* json.load and the dispatch on the record's shape (lines 86-101).
LoadJson ==
    /\ ppc = "load"
    /\ IF rec.kind = "unparsable"
       THEN ppc' = "returned" /\ UNCHANGED <<feats, fi>>
       ELSE LET l == LoadFeats(rec)
            IN  IF l.raised
                THEN ppc' = "raised" /\ UNCHANGED <<feats, fi>>
                ELSE ppc' = "loop" /\ feats' = l.feats /\ fi' = 1
    /\ UNCHANGED <<rec, out, chipVars, pairVars, runVars>>

\* One iteration of "for ft in feats" (lines 102-114).
ParseFeature ==
    /\ ppc = "loop"
    /\ fi <= Len(feats)
    /\ LET p == ParseOne(feats[fi])
       IN  CASE p.res = "raise" -> ppc' = "raised" /\ UNCHANGED <<fi, out>>
             [] p.res = "append" ->
                    /\ out' = Append(out, [geom |-> "polygon", label_int |-> p.label_int,
                                           label_text |-> p.label_text])
                    /\ fi' = fi + 1
                    /\ UNCHANGED ppc
             [] OTHER -> fi' = fi + 1 /\ UNCHANGED <<ppc, out>>
    /\ UNCHANGED <<rec, feats, chipVars, pairVars, runVars>>

\* return out (line 115)
ReturnOut ==
    /\ ppc = "loop"
    /\ fi > Len(feats)
    /\ ppc' = "returned"
    /\ UNCHANGED <<rec, feats, fi, out, chipVars, pairVars, runVars>>

NextParse == LoadJson \/ ParseFeature \/ ReturnOut

SpecParse == InitParse /\ [][NextParse]_vars

------------------------------------------------------------------------------
\* Tile pair resolver: process_split lines 126-133

\* Most files in an image directory.
MaxFiles == 3

Stems == {"a", "b"}
Markers == {"_pre_disaster", "_PRE_DISASTER", "_post_disaster", "_POST_DISASTER"}
Exts == {".tif", ".TIF", ".png", ".jpg"}

\* A file name is stem + marker + ext.
FileNames == [stem : Stems, marker : Markers, ext : Exts]

\* Case folding of the name parts that occur.
lower_part(t) ==
    CASE t = "_PRE_DISASTER" -> "_pre_disaster"
      [] t = "_POST_DISASTER" -> "_post_disaster"
      [] t = ".TIF" -> ".tif"
      [] OTHER -> t

\* linux: glob and file lookup are case-sensitive; macos: glob is
\* case-sensitive, file lookup is not; windows: neither is.
Platforms == {"linux", "macos", "windows"}
GlobIgnoresCase(pf) == pf = "windows"
FsIgnoresCase(pf) == pf \in {"macos", "windows"}

\* images_dir.rglob("*_pre_disaster.*")
GlobPre(files, pf) ==
    {p \in files : IF GlobIgnoresCase(pf)
                   THEN lower_part(p.marker) = "_pre_disaster"
                   ELSE p.marker = "_pre_disaster"}

\* PAIR_RX.match(p.name): (.*)_(pre|post)_disaster\.(?:tif|tiff|png)$, IGNORECASE
PAIR_RX_match(p) ==
    /\ lower_part(p.marker) \in {"_pre_disaster", "_post_disaster"}
    /\ lower_part(p.ext) \in {".tif", ".tiff", ".png"}

\* p.with_name(stem+"_post_disaster"+p.suffix)
PostNameOf(p) == [stem |-> p.stem, marker |-> "_post_disaster", ext |-> p.ext]

\* post.exists()
PathExists(files, q, pf) ==
    \E f \in files :
        IF FsIgnoresCase(pf)
        THEN /\ f.stem = q.stem
             /\ lower_part(f.marker) = lower_part(q.marker)
             /\ lower_part(f.ext) = lower_part(q.ext)
        ELSE f = q

\* The pre files that pass lines 127-132.
PairedPre(files, pf) ==
    {p \in GlobPre(files, pf) : PAIR_RX_match(p) /\ PathExists(files, PostNameOf(p), pf)}

\* The mappings the loop of lines 127-133 can leave in pairs: a key per stem of
\* a paired pre file; with several pre files of one stem, the one iterated
\* last (rglob order is arbitrary) stays.
ResolvePairs(files, pf) ==
    LET pre == PairedPre(files, pf)
        keys == {p.stem : p \in pre}
    IN  {m \in [keys -> [pre : pre, post : FileNames]] :
            \A s \in keys : m[s].pre.stem = s /\ m[s].post = PostNameOf(m[s].pre)}

Directories ==
    UNION {{{f[n] : n \in 1..c} : f \in [1..c -> FileNames]} : c \in 0..MaxFiles}

InitPairs ==
    /\ RunIdle
    /\ ChipIdle
    /\ ParseIdle
    /\ dpc = "scan"
    /\ imgdir \in Directories
    /\ platform \in Platforms
    /\ found = <<>>

\* Lines 126-133: the scan that fills pairs.
ScanPairs ==
    /\ dpc = "scan"
    /\ found' \in ResolvePairs(imgdir, platform)
    /\ dpc' = "resolved"
    /\ UNCHANGED <<imgdir, platform, chipVars, parseVars, runVars>>

NextPairs == ScanPairs

SpecPairs == InitPairs /\ [][NextPairs]_vars

------------------------------------------------------------------------------
\* Shift estimator: estimate_shift (lines 66-72) and its call (lines 139-141)

DOWNSAMPLE_FOR_SHIFT == 4
MAX_SHIFT_PX == 20
\* upsample_factor=10: the registration resolves tenths of a pixel, and every
\* shift below is counted in tenths of a pixel.
UPSAMPLE == 10

\* np.clip(v, lo, hi)
np_clip(v, lo, hi) == Min(Max(v, lo), hi)

\* estimate_shift that rescales but does not clamp.
estimate_shift_unclamped(raw) ==
    [dx |-> raw.dx * DOWNSAMPLE_FOR_SHIFT, dy |-> raw.dy * DOWNSAMPLE_FOR_SHIFT]

\* estimate_shift on the displacement (dy, dx) the registration returned.
estimate_shift(raw) ==
    [dx |-> np_clip(raw.dx * DOWNSAMPLE_FOR_SHIFT,
                    0 - MAX_SHIFT_PX * UPSAMPLE, MAX_SHIFT_PX * UPSAMPLE),
     dy |-> np_clip(raw.dy * DOWNSAMPLE_FOR_SHIFT,
                    0 - MAX_SHIFT_PX * UPSAMPLE, MAX_SHIFT_PX * UPSAMPLE)]

\* What reading and registering the two rasters can do: raise, or return a
\* displacement at the downsampled resolution (small, exactly at the clamp,
\* beyond it on both sides).
RawShifts ==
    { [dy |-> 3, dx |-> -12], [dy |-> 50, dx |-> -50], [dy |-> 51, dx |-> -75],
      [dy |-> -80, dx |-> 64] }
EstOutcomes ==
    {[raised |-> TRUE, dy |-> 0, dx |-> 0]}
    \cup {[raised |-> FALSE, dy |-> r.dy, dx |-> r.dx] : r \in RawShifts}

ZeroShift == [dx |-> 0, dy |-> 0]

\* dx,dy=0.0,0.0; try: dx,dy=estimate_shift(pre,post); except: pass
ShiftForPair(o) == IF o.raised THEN ZeroShift ELSE estimate_shift(o)

------------------------------------------------------------------------------
\* process_split (lines 118-174) and main (lines 176-180)

SPLITS_OVERRIDE == <<"hold", "tier1", "tier3", "test">>

\* Most tile pairs met in one run.
MaxPairs == 2
\* Most building features met in one run.
MaxChips == 2
\* Most calls of process_split on one split.
MaxRuns == 2

EmptyMap == [s \in {} |-> ZeroShift]
EmptyDir ==
    [shiftlog |-> [present |-> FALSE, gen |-> 0, entries |-> EmptyMap],
     manifest |-> [present |-> FALSE, gen |-> 0, rows |-> <<>>],
     pngs |-> {}, sidecars |-> {}]
NoTile == [stem |-> "", dx |-> 0, dy |-> 0, feats |-> <<>>]

\* Image directories of a split: per stem nothing, a pre tile alone, or a pre
\* and a post tile.
TileFile(s, m) == [stem |-> s, marker |-> m, ext |-> ".tif"]
TileFiles(s, have) ==
    CASE have = "none" -> {}
      [] have = "pre" -> {TileFile(s, "_pre_disaster")}
      [] OTHER -> {TileFile(s, "_pre_disaster"), TileFile(s, "_post_disaster")}
SplitDirs ==
    {UNION {TileFiles(s, d[s]) : s \in Stems} : d \in [Stems -> {"none", "pre", "both"}]}

Perms(S) == {q \in [1..Cardinality(S) -> S] : \A a, b \in DOMAIN q : q[a] = q[b] => a = b}

\* The label file of a tile: missing, or a record.  The records here hold a
\* flat "features" list of buildings (subtype in upper case) and of elements
\* whose "properties" is null.
MissingLabel == RecordOf("missing", <<>>, NoFeatures)
TileElems ==
    { ElemOf("obj", PropsOf("obj", "building",
                            [kind |-> "str", text |-> <<"D", "E", "S", "T", "R", "O", "Y", "E", "D">>]), "valid"),
      ElemOf("obj", PropsOf("null", "absent", NoSubtype), "valid") }
TileLabels(n) ==
    {MissingLabel, RecordOf("unparsable", <<>>, NoFeatures)}
    \cup {RecordOf("obj", <<>>, FeaturesOf("list", xs, NoSubValue, NoSubValue)) :
            xs \in SeqsUpTo(TileElems, n)}

\* load_wkt_features as a whole: the loop of ParseOne over LoadFeats.
RECURSIVE ParseFrom(_, _, _)
ParseFrom(fs, n, acc) ==
    IF n > Len(fs) THEN [raised |-> FALSE, out |-> acc]
    ELSE LET p == ParseOne(fs[n])
         IN  CASE p.res = "raise" -> [raised |-> TRUE, out |-> <<>>]
               [] p.res = "append" ->
                    ParseFrom(fs, n + 1,
                              Append(acc, [geom |-> "polygon", label_int |-> p.label_int,
                                           label_text |-> p.label_text]))
               [] OTHER -> ParseFrom(fs, n + 1, acc)
load_wkt_features(r) ==
    IF r.kind = "unparsable" THEN [raised |-> FALSE, out |-> <<>>]
    ELSE LET l == LoadFeats(r)
         IN  IF l.raised THEN [raised |-> TRUE, out |-> <<>>]
             ELSE ParseFrom(l.feats, 1, <<>>)

\* The post raster of a tile and where centroids land in it.
TileRaster == [w |-> 512, h |-> 512, bands |-> 3]
TileCentroids == {[row |-> 10, col |-> 10], [row |-> 256, col |-> 256]}

ExtractFaults == {"index", "read", "save_png", "sidecar"}

MapPut(m, key, v) == [s \in DOMAIN m \cup {key} |-> IF s = key THEN v ELSE m[s]]

\* One pass of the pair loop that records the shift only for labelled tiles.
PairBody_late(stem, est, lab) ==
    LET sh == ShiftForPair(est)
        parsed == load_wkt_features(lab)
    IN  IF lab.kind = "missing"
        THEN [shifts |-> shifts, sh |-> sh, go |-> "next", feats |-> <<>>]
        ELSE [shifts |-> MapPut(shifts, stem, sh), sh |-> sh,
              go |-> IF parsed.raised THEN "raise"
                     ELSE IF parsed.out = <<>> THEN "next" ELSE "chips",
              feats |-> parsed.out]

\* One pass of the pair loop up to the feature loop (lines 138-148): the
\* shift log after it, the tile's shift, and where control goes.
PairBody(stem, est, lab) ==
    LET sh == ShiftForPair(est)
        parsed == load_wkt_features(lab)
    IN  [shifts |-> MapPut(shifts, stem, sh), sh |-> sh,
         go |-> IF lab.kind = "missing" THEN "next"
                ELSE IF parsed.raised THEN "raise"
                ELSE IF parsed.out = <<>> THEN "next" ELSE "chips",
         feats |-> IF lab.kind = "missing" THEN <<>> ELSE parsed.out]

\* Writing a file replaces the file of the same name.
PutFile(files, f) == {g \in files : ~(g.stem = f.stem /\ g.idx = f.idx)} \cup {f}

Locals == <<pairSeq, pairIdx, shifts, manifest, tile, featIdx, unlabelled, estFailed>>

InitRun ==
    /\ ChipIdle
    /\ ParseIdle
    /\ PairsIdle
    /\ pc = "call"
    /\ run = 1
    /\ quotaPairs = MaxPairs
    /\ quotaChips = MaxChips
    /\ pairSeq = <<>>
    /\ pairIdx = 0
    /\ shifts = EmptyMap
    /\ manifest = <<>>
    /\ tile = NoTile
    /\ featIdx = 0
    /\ unlabelled = {}
    /\ estFailed = {}
    /\ fault = "none"
    /\ disk = [s \in {SPLITS_OVERRIDE[n] : n \in DOMAIN SPLITS_OVERRIDE} |-> EmptyDir]

\* main: splits=SPLITS_OVERRIDE; the first process_split(s) is about to run.
Init ==
    /\ InitRun
    /\ split = Head(SPLITS_OVERRIDE)
    /\ todo = Tail(SPLITS_OVERRIDE)

\* process_split is about to run on one split.
InitSplit ==
    /\ InitRun
    /\ split = Head(SPLITS_OVERRIDE)
    /\ todo = <<>>

\* Entry of process_split up to the pair loop (lines 119-136).
StartSplit ==
    /\ pc = "call"
    /\ \/ /\ pc' = "returned_missing"
          /\ UNCHANGED Locals
          /\ UNCHANGED quotaPairs
       \/ \E d \in SplitDirs : \E m \in ResolvePairs(d, "linux") : \E q \in Perms(DOMAIN m) :
            /\ Len(q) <= quotaPairs
            /\ quotaPairs' = quotaPairs - Len(q)
            /\ pairSeq' = q
            /\ pairIdx' = 1
            /\ shifts' = EmptyMap
            /\ manifest' = <<>>
            /\ unlabelled' = {}
            /\ estFailed' = {}
            /\ pc' = "pairs"
            /\ UNCHANGED <<tile, featIdx>>
    /\ UNCHANGED <<split, todo, run, quotaChips, fault, disk, chipVars, parseVars, pairVars>>

\* One pass of "for stem,paths in pairs.items()" up to the feature loop
\* (lines 137-150).
PairStep ==
    /\ pc = "pairs"
    /\ pairIdx <= Len(pairSeq)
    /\ \E est \in EstOutcomes : \E lab \in TileLabels(quotaChips) :
        LET stem == pairSeq[pairIdx]
            b == PairBody(stem, est, lab)
        IN  /\ shifts' = b.shifts
            /\ estFailed' = IF est.raised THEN estFailed \cup {stem} ELSE estFailed
            /\ unlabelled' = IF lab.kind = "missing" THEN unlabelled \cup {stem} ELSE unlabelled
            /\ CASE b.go = "raise" ->
                      /\ pc' = "crashed"
                      /\ fault' = "parse"
                      /\ UNCHANGED <<pairIdx, tile, featIdx, quotaChips>>
                 [] b.go = "chips" ->
                      /\ pc' = "chips"
                      /\ tile' = [stem |-> stem, dx |-> b.sh.dx, dy |-> b.sh.dy, feats |-> b.feats]
                      /\ featIdx' = 0
                      /\ quotaChips' = quotaChips - Len(b.feats)
                      /\ UNCHANGED <<pairIdx, fault>>
                 [] OTHER ->
                      /\ pairIdx' = pairIdx + 1
                      /\ UNCHANGED <<pc, tile, featIdx, quotaChips, fault>>
    /\ UNCHANGED <<split, todo, run, quotaPairs, pairSeq, manifest, disk,
                   chipVars, parseVars, pairVars>>

\* One pass of "for i,b in enumerate(feats)" (lines 151-169).
FeatureStep ==
    /\ pc = "chips"
    /\ \E c \in TileCentroids : \E f \in ExtractFaults \cup {"none"} :
        LET b == tile.feats[featIdx + 1]
            wn == ChipWindow(c, TileRaster)
            png == [stem |-> tile.stem, idx |-> featIdx, shape |-> ChipShape(TileRaster, wn),
                    gen |-> run]
            sidecar == [stem |-> tile.stem, idx |-> featIdx, label_int |-> b.label_int,
                        label_text |-> b.label_text, shift_dx |-> tile.dx,
                        shift_dy |-> tile.dy, gen |-> run]
            row == [stem |-> tile.stem, idx |-> featIdx, label_int |-> b.label_int,
                    label_text |-> b.label_text, dx |-> tile.dx, dy |-> tile.dy]
        IN  IF f # "none"
            THEN /\ pc' = "crashed"
                 /\ fault' = f
                 /\ disk' = IF f = "sidecar"
                            THEN [disk EXCEPT ![split].pngs = PutFile(@, png)]
                            ELSE disk
                 /\ UNCHANGED <<manifest, featIdx, pairIdx, tile>>
            ELSE /\ disk' = [disk EXCEPT ![split].pngs = PutFile(@, png),
                                         ![split].sidecars = PutFile(@, sidecar)]
                 /\ manifest' = Append(manifest, row)
                 /\ IF featIdx + 1 < Len(tile.feats)
                    THEN featIdx' = featIdx + 1 /\ UNCHANGED <<pc, pairIdx, tile>>
                    ELSE pc' = "pairs" /\ pairIdx' = pairIdx + 1 /\ featIdx' = 0 /\ tile' = NoTile
                 /\ UNCHANGED fault
    /\ UNCHANGED <<split, todo, run, quotaPairs, quotaChips, pairSeq, shifts,
                   unlabelled, estFailed, chipVars, parseVars, pairVars>>

\* After the pair loop: write post_shifts.json, and manifest.csv if there
\* are rows (lines 170-174).
FinishSplit ==
    /\ pc = "pairs"
    /\ pairIdx > Len(pairSeq)
    /\ disk' = [disk EXCEPT
                  ![split].shiftlog = [present |-> TRUE, gen |-> run, entries |-> shifts],
                  ![split].manifest = IF manifest # <<>>
                                      THEN [present |-> TRUE, gen |-> run, rows |-> manifest]
                                      ELSE @]
    /\ pc' = "returned"
    /\ UNCHANGED <<split, todo, run, quotaPairs, quotaChips, fault, Locals,
                   chipVars, parseVars, pairVars>>

\* main: "for s in splits: process_split(s)" moves on (line 180).
MainNext ==
    /\ pc \in {"returned", "returned_missing"}
    /\ IF todo # <<>>
       THEN /\ split' = Head(todo)
            /\ todo' = Tail(todo)
            /\ pc' = "call"
       ELSE /\ pc' = "exit"
            /\ UNCHANGED <<split, todo>>
    /\ UNCHANGED <<run, quotaPairs, quotaChips, fault, disk, Locals,
                   chipVars, parseVars, pairVars>>

\* process_split is called on the same split once more.
CallAgain ==
    /\ pc \in {"returned", "returned_missing"}
    /\ run < MaxRuns
    /\ run' = run + 1
    /\ pc' = "call"
    /\ quotaPairs' = MaxPairs
    /\ quotaChips' = MaxChips
    /\ UNCHANGED <<split, todo, fault, disk, Locals, chipVars, parseVars, pairVars>>

Next == StartSplit \/ PairStep \/ FeatureStep \/ FinishSplit \/ MainNext

Spec == Init /\ [][Next]_vars

\* One call of process_split.
NextSplit == StartSplit \/ PairStep \/ FeatureStep \/ FinishSplit

SpecSplit == InitSplit /\ [][NextSplit]_vars

\* process_split called on one split, again and again.
NextRerun == StartSplit \/ PairStep \/ FeatureStep \/ FinishSplit \/ CallAgain

SpecRerun == InitSplit /\ [][NextRerun]_vars

------------------------------------------------------------------------------
\* Properties

Clamp(v, lo, hi) == Max(lo, Min(v, hi))

\* C1: for a raster at least CROP_SIZE wide and high, the window read for
\* any projected centroid is CROP_SIZE x CROP_SIZE and lies inside the raster.
C1_WindowInsideRaster ==
    (xpc = "saved" /\ ras.w >= CROP_SIZE /\ ras.h >= CROP_SIZE) =>
        /\ win.width = CROP_SIZE
        /\ win.height = CROP_SIZE
        /\ 0 <= win.col_off /\ win.col_off <= ras.w - CROP_SIZE
        /\ 0 <= win.row_off /\ win.row_off <= ras.h - CROP_SIZE

\* A chip read from a non-square raster for a centroid beyond its bottom edge
\* and left of its left edge.
C1_Witness ==
    /\ xpc = "saved"
    /\ ras.w >= CROP_SIZE /\ ras.h > ras.w
    /\ cen.row > ras.h /\ cen.col < 0

\* C2: the column offset is the clamped centroid column, bounded by the
\* width; the row offset is the clamped centroid row, bounded by the height.
C2_OffsetsFollowColumnAndRow ==
    (xpc = "saved" /\ ras.w >= CROP_SIZE /\ ras.h >= CROP_SIZE) =>
        /\ win.col_off = Clamp(cen.col - CROP_SIZE \div 2, 0, ras.w - CROP_SIZE)
        /\ win.row_off = Clamp(cen.row - CROP_SIZE \div 2, 0, ras.h - CROP_SIZE)

\* C3: the chip handed to save_png is CROP_SIZE x CROP_SIZE x 3 for every
\* band count of the post raster.
C3_ChipHasThreeChannels ==
    xpc = "saved" => chip = <<CROP_SIZE, CROP_SIZE, 3>>

\* C4: load_wkt_features never raises, whatever the label record holds.
C4_ParserNeverRaises == ppc # "raised"

\* C6: a stem is a key of the pair mapping exactly when the directory holds a
\* pre and a post file of that stem, markers and extensions compared without
\* case, the two extensions free to differ among the supported ones.
HasTile(files, s, m) ==
    \E f \in files :
        /\ f.stem = s
        /\ lower_part(f.marker) = m
        /\ lower_part(f.ext) \in {".tif", ".tiff", ".png"}
C6_KeyIffPreAndPost ==
    dpc = "resolved" =>
        \A s \in Stems :
            s \in DOMAIN found <=>
                HasTile(imgdir, s, "_pre_disaster") /\ HasTile(imgdir, s, "_post_disaster")

\* The table of the damage classes as the claim gives it.
ClassTexts ==
    <<{<<"n", "o", "-", "d", "a", "m", "a", "g", "e">>, <<"n", "o", "n", "e">>, <<"u", "n", "d", "a", "m", "a", "g", "e", "d">>},
      {<<"m", "i", "n", "o", "r", "-", "d", "a", "m", "a", "g", "e">>, <<"m", "i", "n", "o", "r", "_", "d", "a", "m", "a", "g", "e">>, <<"m", "i", "n", "o", "r">>},
      {<<"m", "a", "j", "o", "r", "-", "d", "a", "m", "a", "g", "e">>, <<"m", "a", "j", "o", "r", "_", "d", "a", "m", "a", "g", "e">>, <<"m", "a", "j", "o", "r">>},
      {<<"d", "e", "s", "t", "r", "o", "y", "e", "d">>, <<"t", "o", "t", "a", "l", "-", "d", "e", "s", "t", "r", "u", "c", "t", "i", "o", "n">>}>>
SameLetter(a, b) ==
    a = b \/ \E n \in 1..Len(LowerLetters) : {a, b} = {LowerLetters[n], UpperLetters[n]}
SameIgnoringCase(s, u) ==
    Len(s) = Len(u) /\ \A n \in 1..Len(s) : SameLetter(s[n], u[n])
ClassOfText(s) ==
    IF \E c \in 1..4 : \E u \in ClassTexts[c] : SameIgnoringCase(s, u)
    THEN (CHOOSE c \in 1..4 : \E u \in ClassTexts[c] : SameIgnoringCase(s, u)) - 1
    ELSE 0
ClassOfSubtype(st) == IF st.kind = "str" THEN ClassOfText(st.text) ELSE 0

\* C10: every feature the parser appends carries the class the table gives
\* for its subtype text, compared without case; any other text, or no
\* subtype, gives class 0; the class is in 0..3.
C10_LabelFromTable ==
    [][(ppc = "loop" /\ Len(out') = Len(out) + 1) =>
          LET o == out'[Len(out')]
          IN  /\ o.label_int \in 0..3
              /\ o.label_int = ClassOfSubtype(feats[fi].props.subtype)]_vars

\* The parser has returned a feature of class 2 whose subtype was written in
\* upper case.
C10_Witness ==
    /\ ppc = "returned"
    /\ Len(out) = 1 /\ Len(feats) = 1
    /\ out[1].label_int = 2
    /\ feats[1].props.subtype.text = <<"M", "A", "J", "O", "R", "_", "D", "A", "M", "A", "G", "E">>

\* C5: a failure in extracting or writing one chip does not end the run: the
\* run is never left aborted with further features of the tile, further pairs
\* of the split and further splits unprocessed and the split's shift log
\* unwritten.
C5_ExtractFaultDoesNotAbort ==
    ~ /\ pc = "crashed"
      /\ fault \in ExtractFaults
      /\ featIdx + 1 < Len(tile.feats)
      /\ pairIdx < Len(pairSeq)
      /\ todo # <<>>
      /\ ~disk[split].shiftlog.present

\* C7: when a call of process_split has completed, the persisted shift log
\* and the persisted manifest hold exactly what that call accumulated, also
\* when it emitted no chip.
C7_PersistedIsThisRun ==
    pc = "returned" =>
        /\ disk[split].shiftlog.entries = shifts
        /\ disk[split].manifest.rows = manifest

\* C8: the shift log has an entry for every pair the loop has processed, and
\* when the call has completed the persisted log has one for every resolved
\* pair; a pair without a label file has its entry and no chip image, no
\* sidecar and no manifest row.
StemsOf(q, n) == {q[m] : m \in 1..Min(n, Len(q))}
C8_ShiftEntryPerPair ==
    /\ pc \in {"pairs", "returned"} => DOMAIN shifts = StemsOf(pairSeq, pairIdx - 1)
    /\ pc \in {"chips", "crashed"} => DOMAIN shifts = StemsOf(pairSeq, pairIdx)
    /\ pc = "returned" =>
          /\ disk[split].shiftlog.present
          /\ DOMAIN disk[split].shiftlog.entries = StemsOf(pairSeq, Len(pairSeq))
    /\ pc \in {"pairs", "chips", "returned", "crashed"} =>
          \A s \in unlabelled :
              /\ s \in DOMAIN shifts
              /\ \A n \in DOMAIN manifest : manifest[n].stem # s
              /\ \A f \in disk[split].pngs : f.stem # s
              /\ \A f \in disk[split].sidecars : f.stem # s

\* A completed call over two pairs: one without a label file, one with chips.
C8_Witness ==
    /\ pc = "returned"
    /\ Len(pairSeq) = 2
    /\ pairSeq[1] \in unlabelled
    /\ manifest # <<>>

\* C9: every recorded shift (shift log, sidecars, manifest rows, in memory and
\* persisted) has both components within MAX_SHIFT_PX, and a pair whose
\* estimate raised is recorded with the zero shift.
ShiftInRange(v) ==
    /\ 0 - MAX_SHIFT_PX * UPSAMPLE <= v
    /\ v <= MAX_SHIFT_PX * UPSAMPLE
C9_ShiftClamped ==
    /\ \A s \in DOMAIN shifts : ShiftInRange(shifts[s].dx) /\ ShiftInRange(shifts[s].dy)
    /\ \A n \in DOMAIN manifest : ShiftInRange(manifest[n].dx) /\ ShiftInRange(manifest[n].dy)
    /\ \A sp \in DOMAIN disk :
          /\ \A f \in disk[sp].sidecars :
                ShiftInRange(f.shift_dx) /\ ShiftInRange(f.shift_dy)
          /\ \A s \in DOMAIN disk[sp].shiftlog.entries :
                /\ ShiftInRange(disk[sp].shiftlog.entries[s].dx)
                /\ ShiftInRange(disk[sp].shiftlog.entries[s].dy)
          /\ \A n \in DOMAIN disk[sp].manifest.rows :
                /\ ShiftInRange(disk[sp].manifest.rows[n].dx)
                /\ ShiftInRange(disk[sp].manifest.rows[n].dy)
    /\ \A s \in estFailed : s \in DOMAIN shifts /\ shifts[s] = ZeroShift

\* A completed call that recorded a shift clamped on both axes for one pair
\* and emitted a chip for another pair whose estimate had raised.
C9_Witness ==
    /\ pc = "returned"
    /\ \E s \in DOMAIN shifts :
          shifts[s] = [dx |-> 0 - MAX_SHIFT_PX * UPSAMPLE, dy |-> MAX_SHIFT_PX * UPSAMPLE]
    /\ \E s \in estFailed : \E f \in disk[split].sidecars :
          f.stem = s /\ f.shift_dx = 0 /\ f.shift_dy = 0

====
